---- MODULE Spec2Model ----
(***************************************************************************)
(* Identification-spectrum correlation helpers of quantms-web              *)
(* (src/src/common/results_helpers.py): extract_scan_from_ref,             *)
(* extract_scan_number, extract_filename_from_idxml, parse_idxml and       *)
(* build_spectra_cache.                                                    *)
(*                                                                         *)
(* Strings are sequences of one-character strings, so that the regular     *)
(* expression search, str.replace, Path.stem, Path.name, the glob pattern  *)
(* and the lexicographic sort are computed character by character.         *)
(***************************************************************************)
EXTENDS Integers, Sequences, FiniteSets, TLC

VARIABLES
    scan_input,         \* the string handed to the two scan extractors
    scan_ref_out,       \* extract_scan_from_ref's last return value
    scan_native_out,    \* extract_scan_number's last return value
    idxml,              \* the identification document parse_idxml is called on
    parse_out,          \* parse_idxml's outcome: returned (id_df, spectra_data) or raised
    mzml_dir,           \* the directory build_spectra_cache was last called on
    filename_to_index,  \* the filename -> index dict the caller threads through the calls
    cache_out           \* build_spectra_cache's outcome: returned spectra_df or an error

vars == <<scan_input, scan_ref_out, scan_native_out, idxml, parse_out,
          mzml_dir, filename_to_index, cache_out>>

scan_vars == <<scan_input, scan_ref_out, scan_native_out>>
parse_vars == <<idxml, parse_out>>
cache_vars == <<mzml_dir, filename_to_index, cache_out>>

(***************************************************************************)
(* Bounds of the model.                                                    *)
(***************************************************************************)
MaxFrags == 4       \* fragments concatenated into a scan-extraction input
MaxEntries == 2     \* identification entries in a document
MaxHits == 2        \* hits of one identification entry
MaxSpectra == 2     \* spectra in one raw-data document
MaxFiles == 2       \* files in a scanned directory

(***************************************************************************)
(* Characters and strings.                                                 *)
(***************************************************************************)
Digits == {"0", "1", "2", "3", "4", "5", "6", "7", "8", "9"}

\* Code points of the characters the model's strings are made of (Python
\* compares str by code point).
CharCode(c) ==
    CASE c = " " -> 32 [] c = "." -> 46 [] c = "/" -> 47
      [] c = "0" -> 48 [] c = "1" -> 49 [] c = "2" -> 50 [] c = "3" -> 51
      [] c = "4" -> 52 [] c = "5" -> 53 [] c = "6" -> 54 [] c = "7" -> 55
      [] c = "8" -> 56 [] c = "9" -> 57 [] c = "=" -> 61
      [] c = "A" -> 65 [] c = "B" -> 66 [] c = "C" -> 67 [] c = "L" -> 76
      [] c = "M" -> 77 [] c = "X" -> 88 [] c = "_" -> 95
      [] c = "a" -> 97 [] c = "c" -> 99 [] c = "d" -> 100 [] c = "e" -> 101
      [] c = "f" -> 102 [] c = "i" -> 105 [] c = "l" -> 108 [] c = "m" -> 109
      [] c = "n" -> 110 [] c = "o" -> 111 [] c = "p" -> 112 [] c = "r" -> 114
      [] c = "s" -> 115 [] c = "t" -> 116 [] c = "w" -> 119 [] c = "x" -> 120
      [] c = "z" -> 122

\* s < t for Python str (and for two PosixPath of one directory, which compare
\* by their parts): the first differing character decides, a proper prefix is
\* smaller.
RECURSIVE StrLess(_, _)
StrLess(s, t) ==
    IF t = <<>> THEN FALSE
    ELSE IF s = <<>> THEN TRUE
    ELSE IF Head(s) = Head(t) THEN StrLess(Tail(s), Tail(t))
    ELSE CharCode(Head(s)) < CharCode(Head(t))

StartsWith(s, p) == Len(p) <= Len(s) /\ SubSeq(s, 1, Len(p)) = p

EndsWith(s, p) == Len(p) <= Len(s) /\ SubSeq(s, Len(s) - Len(p) + 1, Len(s)) = p

\* str.replace(old, ''): every non-overlapping occurrence of old, found left
\* to right, is removed.
RECURSIVE StrRemoveAll(_, _)
StrRemoveAll(s, old) ==
    IF Len(s) < Len(old) THEN s
    ELSE IF StartsWith(s, old) THEN StrRemoveAll(SubSeq(s, Len(old) + 1, Len(s)), old)
    ELSE <<Head(s)>> \o StrRemoveAll(Tail(s), old)

\* The positions of the character c in s.
Positions(s, c) == {i \in 1..Len(s) : s[i] = c}

SetMax(S) == CHOOSE x \in S : \A y \in S : y <= x

SetMin(S) == CHOOSE x \in S : \A y \in S : x <= y

\* PurePath.name of a posix path given as a string: the final component.
PathName(p) ==
    IF Positions(p, "/") = {} THEN p
    ELSE SubSeq(p, SetMax(Positions(p, "/")) + 1, Len(p))

\* PurePath.stem: the name without its last suffix; a name whose only dot is
\* its first or its last character has no suffix.
PathStem(p) ==
    LET name == PathName(p)
        dots == Positions(name, ".")
    IN  IF dots = {} THEN name
        ELSE LET i == SetMax(dots)
             IN  IF 1 < i /\ i < Len(name) THEN SubSeq(name, 1, i - 1) ELSE name

(***************************************************************************)
(* Scan-number extraction: re.search(r'scan=(\d+)', s), then int(group 1). *)
(***************************************************************************)
\* The literal part of the pattern in extract_scan_from_ref.
RefPatternLiteral == <<"s", "c", "a", "n", "=">>

\* A slip of the native-id pattern: the "=" left out.
NativePatternWithoutEquals == <<"s", "c", "a", "n">>

\* The literal part of the pattern in extract_scan_number.
NativePatternLiteral == <<"s", "c", "a", "n", "=">>

\* The greedy \d+ at position i of s: the longest run of digits starting there.
RECURSIVE DigitRun(_, _)
DigitRun(s, i) ==
    IF i > Len(s) \/ s[i] \notin Digits THEN <<>>
    ELSE <<s[i]>> \o DigitRun(s, i + 1)

\* re.search(lit (\d+), s) scanning start positions left to right from i: the
\* first position where lit is followed by at least one digit matches.
RECURSIVE ReSearchFrom(_, _, _)
ReSearchFrom(lit, s, i) ==
    IF i + Len(lit) > Len(s) THEN [matched |-> FALSE, group1 |-> <<>>]
    ELSE IF /\ SubSeq(s, i, i + Len(lit) - 1) = lit
            /\ s[i + Len(lit)] \in Digits
         THEN [matched |-> TRUE, group1 |-> DigitRun(s, i + Len(lit))]
         ELSE ReSearchFrom(lit, s, i + 1)

ReSearch(lit, s) == ReSearchFrom(lit, s, 1)

\* int(str) of a string of decimal digits.
RECURSIVE PyInt(_)
PyInt(ds) ==
    IF ds = <<>> THEN 0
    ELSE 10 * PyInt(SubSeq(ds, 1, Len(ds) - 1)) + (CharCode(ds[Len(ds)]) - CharCode("0"))

extract_scan_from_ref(spec_ref) ==
    LET match == ReSearch(RefPatternLiteral, spec_ref)
    IN  IF match.matched THEN PyInt(match.group1) ELSE 0

extract_scan_number(native_id) ==
    LET match == ReSearch(NativePatternLiteral, native_id)
    IN  IF match.matched THEN PyInt(match.group1) ELSE 0

(***************************************************************************)
(* extract_filename_from_idxml and parse_idxml.                            *)
(*                                                                         *)
(* An identification document is a record                                  *)
(*   path                  the idXML file's path                           *)
(*   embedded_spectra_data the source filenames the document itself lists  *)
(*                         (loaded into `proteins`)                        *)
(*   peps                  the identification entries, in document order,  *)
(*                         each with its two optional meta values and its  *)
(*                         hits.                                           *)
(* A hit <<i, j>> stands for the j-th hit of the i-th entry and for the    *)
(* columns copied from it unchanged (sequence, charge, score, accessions,  *)
(* and the entry's mz and rt).                                             *)
(***************************************************************************)
IdxmlSuffixes == << <<"_", "c", "o", "m", "e", "t">>,
                    <<"_", "p", "e", "r">>,
                    <<"_", "f", "i", "l", "t", "e", "r">> >>

MzMLExtension == <<".", "m", "z", "M", "L">>

\* The for loop over the suffixes: each is removed from the stem in turn.
RECURSIVE StripSuffixes(_, _)
StripSuffixes(stem, suffixes) ==
    IF suffixes = <<>> THEN stem
    ELSE StripSuffixes(StrRemoveAll(stem, Head(suffixes)), Tail(suffixes))

extract_filename_from_idxml(idxml_path) ==
    StripSuffixes(PathStem(idxml_path), IdxmlSuffixes) \o MzMLExtension

\* The source filename list parse_idxml resolves against and returns.
parse_spectra_data(doc) == <<extract_filename_from_idxml(doc.path)>>

\* The spectrum reference handed to extract_scan_from_ref: the meta value when
\* it exists (a bytes value decoded to the str of the same characters), and
\* the empty string otherwise.
pep_spec_ref(pep) ==
    IF pep.has_spectrum_reference THEN pep.spectrum_reference ELSE <<>>

pep_scan_id(pep) == extract_scan_from_ref(pep_spec_ref(pep))

\* A slip of the file index: the entry's id_merge_index is not read.
pep_file_index_unread(pep) == 0

pep_file_index(pep) ==
    IF pep.has_id_merge_index THEN pep.id_merge_index ELSE 0

\* list[i] of Python: a negative index counts from the end, an index outside
\* -len..len-1 raises IndexError.
PyListGet(list, i) ==
    IF 0 <= i /\ i < Len(list) THEN [raised |-> FALSE, value |-> list[i + 1]]
    ELSE IF -Len(list) <= i /\ i < 0 THEN [raised |-> FALSE, value |-> list[Len(list) + i + 1]]
    ELSE [raised |-> TRUE, value |-> <<>>]

\* spectra_data[file_index] if file_index < len(spectra_data) else ""
pep_filename(file_index, spectra_data) ==
    IF file_index < Len(spectra_data) THEN PyListGet(spectra_data, file_index)
    ELSE [raised |-> FALSE, value |-> <<>>]

\* The id_idx of the next record appended to records.
next_id_idx(records) == Len(records)

\* The inner loop over pep.getHits(): one record appended per hit.
RECURSIVE append_hit_records(_, _, _, _, _, _)
append_hit_records(records, hits, j, scan_id, file_index, filename) ==
    IF j > Len(hits) THEN records
    ELSE append_hit_records(
            Append(records, [id_idx     |-> next_id_idx(records),
                             scan_id    |-> scan_id,
                             file_index |-> file_index,
                             filename   |-> IF filename # <<>> THEN PathName(filename) ELSE <<>>,
                             hit        |-> hits[j]]),
            hits, j + 1, scan_id, file_index, filename)

\* The outer loop over the entries from the i-th on; the IndexError of the
\* filename lookup leaves the loop and the function.
RECURSIVE parse_loop(_, _, _, _)
parse_loop(peps, i, spectra_data, records) ==
    IF i > Len(peps) THEN [raised |-> FALSE, records |-> records]
    ELSE LET pep == peps[i]
             scan_id == pep_scan_id(pep)
             file_index == pep_file_index(pep)
             filename == pep_filename(file_index, spectra_data)
         IN  IF filename.raised THEN [raised |-> TRUE, records |-> <<>>]
             ELSE parse_loop(peps, i + 1, spectra_data,
                             append_hit_records(records, pep.hits, 1, scan_id,
                                                file_index, filename.value))

NotCalled == [outcome |-> "not called", id_df |-> <<>>, spectra_data |-> <<>>]

parse_idxml(doc) ==
    LET spectra_data == parse_spectra_data(doc)
        looped == parse_loop(doc.peps, 1, spectra_data, <<>>)
    IN  IF looped.raised
        THEN [outcome |-> "IndexError", id_df |-> <<>>, spectra_data |-> <<>>]
        ELSE [outcome |-> "returned", id_df |-> looped.records, spectra_data |-> spectra_data]

(***************************************************************************)
(* build_spectra_cache.                                                    *)
(*                                                                         *)
(* A directory is a function from the names of its files to their          *)
(* contents; the content of a raw-data file is the sequence of its         *)
(* spectra, each with the two arrays get_peaks() returns.  Masses and      *)
(* intensities are small numbers standing for the floats.  The dict        *)
(* filename_to_index is a function from filenames to integers.             *)
(***************************************************************************)
GlobSuffix == <<".", "m", "z", "M", "L">>

\* mzml_dir.glob("*.mzML"): the names of the directory the pattern matches.
glob_mzml(dir) == {name \in DOMAIN dir : EndsWith(name, GlobSuffix)}

\* sorted(...): ascending, the smallest remaining name first.
RECURSIVE sorted(_)
sorted(names) ==
    IF names = {} THEN <<>>
    ELSE LET first == CHOOSE n \in names : \A m \in names \ {n} : StrLess(n, m)
         IN  <<first>> \o sorted(names \ {first})

\* len(filename_to_index)
dict_len(map) == Cardinality(DOMAIN map)

\* The get-or-create of the file index: the dict after the file is seen.
dict_with_file(map, name) ==
    IF name \notin DOMAIN map
    THEN [n \in DOMAIN map \cup {name} |-> IF n = name THEN dict_len(map) ELSE map[n]]
    ELSE map

\* A slip of the level filter: spectra of every level are cached.
spectrum_is_cached_any_level(spec) == spec.ms_level >= 1

\* The spectra that are not skipped by `continue`.
spectrum_is_cached(spec) == spec.ms_level = 2

\* zip(mz_array, int_array) over the two arrays spec.get_peaks() returned:
\* pairs up to the end of the shorter array.
PyZip(a, b) ==
    LET n == IF Len(a) <= Len(b) THEN Len(a) ELSE Len(b)
    IN  [i \in 1..n |-> <<a[i], b[i]>>]

\* The loop over the zipped peaks of one spectrum; st is the pair of the
\* function's locals (records, peak_id).
RECURSIVE append_peak_records(_, _, _, _, _)
append_peak_records(st, pairs, p, file_index, scan_id) ==
    IF p > Len(pairs) THEN st
    ELSE append_peak_records(
            [records |-> Append(st.records, [peak_id    |-> st.peak_id,
                                             file_index |-> file_index,
                                             scan_id    |-> scan_id,
                                             mass       |-> pairs[p][1],
                                             intensity  |-> pairs[p][2]]),
             peak_id |-> st.peak_id + 1],
            pairs, p + 1, file_index, scan_id)

\* The loop over the spectra of one loaded file.
RECURSIVE cache_spectra(_, _, _, _)
cache_spectra(st, exp, s, file_index) ==
    IF s > Len(exp) THEN st
    ELSE IF ~spectrum_is_cached(exp[s]) THEN cache_spectra(st, exp, s + 1, file_index)
    ELSE cache_spectra(
            append_peak_records(st, PyZip(exp[s].mz_array, exp[s].int_array), 1,
                                file_index, extract_scan_number(exp[s].native_id)),
            exp, s + 1, file_index)

\* The loop over the sorted paths from the k-th on; st carries records,
\* peak_id and the dict.
RECURSIVE cache_files(_, _, _, _)
cache_files(st, dir, paths, k) ==
    IF k > Len(paths) THEN st
    ELSE LET map == dict_with_file(st.map, paths[k])
             file_index == map[paths[k]]
             done == cache_spectra([records |-> st.records, peak_id |-> st.peak_id],
                                   dir[paths[k]], 1, file_index)
         IN  cache_files([records |-> done.records, peak_id |-> done.peak_id, map |-> map],
                         dir, paths, k + 1)

build_spectra_cache(dir, map) ==
    LET st == cache_files([records |-> <<>>, peak_id |-> 0, map |-> map],
                          dir, sorted(glob_mzml(dir)), 1)
    IN  [outcome |-> "returned", spectra_df |-> st.records, filename_to_index |-> st.map]

(***************************************************************************)
(* The inputs the calls are made on.                                       *)
(***************************************************************************)
\* All sequences over S of length at most n.
SeqsUpTo(S, n) == UNION {[1..k -> S] : k \in 0..n}

RECURSIVE Concat(_)
Concat(parts) == IF parts = <<>> THEN <<>> ELSE Head(parts) \o Concat(Tail(parts))

\* Pieces of native ids and spectrum references.
ScanFragments == { <<"s", "c", "a", "n", "=">>, <<"a", "n", "=">>,
                   <<"1", "2">>, <<"7">>, <<"0">>, <<" ">>, <<"e", "n", "d">> }

ScanStrings == {Concat(parts) : parts \in SeqsUpTo(ScanFragments, MaxFrags)}

\* Spectrum references and native ids of the documents.
RefScan5 == <<"s", "c", "a", "n", "=", "5">>
RefCtlScan7 == <<"c", "t", "=", "0", " ", "s", "c", "a", "n", "=", "7">>
RefNoToken == <<"e", "n", "d">>

\* File names.
NameA == <<"A", ".", "m", "z", "M", "L">>
NameB == <<"B", ".", "m", "z", "M", "L">>
NameC == <<"C", ".", "m", "z", "M", "L">>
NameX == <<"X", ".", "m", "z", "M", "L">>
NameRaw == <<"r", "a", "w", ".", "m", "z", "M", "L">>
NameNotes == <<"n", "o", "t", "e", "s", ".", "t", "x", "t">>
PathBComet == <<"B", "_", "c", "o", "m", "e", "t", ".", "i", "d", "X", "M", "L">>
PathAPerFilter == <<"A", "_", "p", "e", "r", "_", "f", "i", "l", "t", "e", "r",
                    ".", "i", "d", "X", "M", "L">>

\* The two optional meta values of an identification entry: both absent;
\* a scan reference without, with an in-range and with an out-of-range
\* id_merge_index; references without a scan token and negative indices.
EntryMetas ==
    { [has_spectrum_reference |-> FALSE, spectrum_reference |-> <<>>,
       has_id_merge_index |-> FALSE, id_merge_index |-> 0],
      [has_spectrum_reference |-> TRUE, spectrum_reference |-> RefScan5,
       has_id_merge_index |-> FALSE, id_merge_index |-> 0],
      [has_spectrum_reference |-> TRUE, spectrum_reference |-> RefScan5,
       has_id_merge_index |-> TRUE, id_merge_index |-> 0],
      [has_spectrum_reference |-> TRUE, spectrum_reference |-> RefCtlScan7,
       has_id_merge_index |-> TRUE, id_merge_index |-> 1],
      [has_spectrum_reference |-> TRUE, spectrum_reference |-> RefNoToken,
       has_id_merge_index |-> TRUE, id_merge_index |-> -1],
      [has_spectrum_reference |-> FALSE, spectrum_reference |-> <<>>,
       has_id_merge_index |-> TRUE, id_merge_index |-> -2] }

\* An entry's meta values and the number of its hits.
EntryShapes == EntryMetas \X (0..MaxHits)

\* The i-th entry of a document, of shape e.
MkPep(e, i) ==
    [has_spectrum_reference |-> e[1].has_spectrum_reference,
     spectrum_reference |-> e[1].spectrum_reference,
     has_id_merge_index |-> e[1].has_id_merge_index,
     id_merge_index |-> e[1].id_merge_index,
     hits |-> [j \in 1..e[2] |-> <<i, j>>]]

MkDoc(path, embedded, shapes) ==
    [path |-> path,
     embedded_spectra_data |-> embedded,
     peps |-> [i \in 1..Len(shapes) |-> MkPep(shapes[i], i)]]

\* The file's path and the source filenames it embeds.
DocHeads == { <<PathBComet, <<>> >>, <<PathBComet, <<NameRaw>> >>, <<PathAPerFilter, <<NameA>> >> }

ParseDocs ==
    {MkDoc(head[1], head[2], shapes) :
        head \in DocHeads, shapes \in SeqsUpTo(EntryShapes, MaxEntries)}

\* Spectra of the raw-data documents.
SpectrumShapes ==
    { [ms_level |-> 1, native_id |-> RefScan5, mz_array |-> <<100, 200>>, int_array |-> <<10, 20>>],
      [ms_level |-> 2, native_id |-> RefScan5, mz_array |-> <<>>, int_array |-> <<>>],
      [ms_level |-> 2, native_id |-> RefNoToken, mz_array |-> <<300>>, int_array |-> <<30>>],
      [ms_level |-> 2, native_id |-> RefCtlScan7, mz_array |-> <<400, 500>>, int_array |-> <<40, 50>>],
      [ms_level |-> 2, native_id |-> RefScan5, mz_array |-> <<600, 700>>, int_array |-> <<60>>] }

FileContents == SeqsUpTo(SpectrumShapes, MaxSpectra)

\* The directories with at most MaxFiles of the given names, each file with
\* one of the given contents.
DirsOf(names, contents) ==
    UNION {[present -> contents] :
             present \in {S \in SUBSET names : Cardinality(S) <= MaxFiles}}

CacheDirs == DirsOf({NameA, NameB}, FileContents)

EmptyDir == [n \in {} |-> <<>>]

EmptyDict == [n \in {} |-> 0]

\* The engine run: one entry with one hit per document, one spectrum with one
\* peak per raw-data file, and a caller-supplied dict whose indices are
\* distinct and not negative.
MaxSeedIndex == 2

EngineDocs ==
    {MkDoc(path, <<>>, <<shape>>) :
        path \in {PathBComet, PathAPerFilter},
        shape \in {e \in EntryShapes : e[1].has_spectrum_reference /\ e[2] = 1}}

OnePeakFile ==
    << [ms_level |-> 2, native_id |-> RefScan5, mz_array |-> <<300>>, int_array |-> <<30>>] >>

EngineDirs == DirsOf({NameA, NameB, NameC, NameNotes}, {OnePeakFile})

Injective(map) == \A f, g \in DOMAIN map : f # g => map[f] # map[g]

SeedDicts ==
    {map \in UNION {[present -> 0..MaxSeedIndex] : present \in SUBSET {NameB, NameX}} :
        Injective(map)}

ScanNotCalled == [called |-> FALSE, value |-> 0]

CacheNotCalled == [outcome |-> "not called", spectra_df |-> <<>>]

(***************************************************************************)
(* The calls.                                                              *)
(***************************************************************************)
\* What the variables of the calls that a specification leaves out hold.
NoDoc == MkDoc(PathBComet, <<>>, <<>>)

ScanIdle ==
    /\ scan_input = <<>>
    /\ scan_ref_out = ScanNotCalled
    /\ scan_native_out = ScanNotCalled

ExtractScanFromRef ==
    /\ scan_ref_out' = [called |-> TRUE, value |-> extract_scan_from_ref(scan_input)]
    /\ UNCHANGED <<scan_input, scan_native_out, parse_vars, cache_vars>>

ExtractScanNumber ==
    /\ scan_native_out' = [called |-> TRUE, value |-> extract_scan_number(scan_input)]
    /\ UNCHANGED <<scan_input, scan_ref_out, parse_vars, cache_vars>>

ParseIdxml ==
    /\ parse_out' = parse_idxml(idxml)
    /\ UNCHANGED <<idxml, scan_vars, cache_vars>>

\* A call on the directory dir with the threaded dict, which the call updates
\* in place and returns.
BuildSpectraCache(dir) ==
    LET result == build_spectra_cache(dir, filename_to_index)
    IN  /\ mzml_dir' = dir
        /\ cache_out' = [outcome |-> result.outcome, spectra_df |-> result.spectra_df]
        /\ filename_to_index' = result.filename_to_index
        /\ UNCHANGED <<scan_vars, parse_vars>>

(***************************************************************************)
(* Specifications.                                                         *)
(***************************************************************************)
\* One engine run: parse_idxml on a document and build_spectra_cache on the
\* directories of the run, in any order, the dict threaded through.
Init ==
    /\ ScanIdle
    /\ idxml \in EngineDocs
    /\ parse_out = NotCalled
    /\ mzml_dir = EmptyDir
    /\ filename_to_index \in SeedDicts
    /\ cache_out = CacheNotCalled

Next ==
    \/ ParseIdxml
    \/ \E dir \in EngineDirs : BuildSpectraCache(dir)

Spec == Init /\ [][Next]_vars

\* The two scan extractors on every string.
InitScan ==
    /\ scan_input \in ScanStrings
    /\ scan_ref_out = ScanNotCalled
    /\ scan_native_out = ScanNotCalled
    /\ idxml = NoDoc
    /\ parse_out = NotCalled
    /\ mzml_dir = EmptyDir
    /\ filename_to_index = EmptyDict
    /\ cache_out = CacheNotCalled

NextScan == ExtractScanFromRef \/ ExtractScanNumber

SpecScan == InitScan /\ [][NextScan]_vars

\* parse_idxml on every document.
InitParse ==
    /\ ScanIdle
    /\ idxml \in ParseDocs
    /\ parse_out = NotCalled
    /\ mzml_dir = EmptyDir
    /\ filename_to_index = EmptyDict
    /\ cache_out = CacheNotCalled

NextParse == ParseIdxml

SpecParse == InitParse /\ [][NextParse]_vars

\* build_spectra_cache on every directory, starting from an empty dict.
InitCache ==
    /\ ScanIdle
    /\ idxml = NoDoc
    /\ parse_out = NotCalled
    /\ mzml_dir \in CacheDirs
    /\ filename_to_index = EmptyDict
    /\ cache_out = CacheNotCalled

NextCache == BuildSpectraCache(mzml_dir)

SpecCache == InitCache /\ [][NextCache]_vars

(***************************************************************************)
(* What the calls are expected to compute, stated without the loops.       *)
(***************************************************************************)
DigitChars == <<"0", "1", "2", "3", "4", "5", "6", "7", "8", "9">>

DigitValue(c) == (CHOOSE k \in 1..10 : DigitChars[k] = c) - 1

RECURSIVE Pow10(_)
Pow10(n) == IF n = 0 THEN 1 ELSE 10 * Pow10(n - 1)

\* The positional value of the digits s[k..last]: the sum of digit * 10^place.
RECURSIVE PlaceValueSum(_, _, _)
PlaceValueSum(s, k, last) ==
    IF k > last THEN 0
    ELSE DigitValue(s[k]) * Pow10(last - k) + PlaceValueSum(s, k + 1, last)

\* The positions of s where "scan=" starts and a digit follows it.
ScanTokenStarts(s) ==
    {i \in 1..Len(s) :
        /\ i + 5 <= Len(s)
        /\ s[i] = "s" /\ s[i + 1] = "c" /\ s[i + 2] = "a" /\ s[i + 3] = "n"
        /\ s[i + 4] = "="
        /\ s[i + 5] \in Digits}

\* The value of the digit run after the leftmost scan=<digit>, 0 without one.
ExpectedScan(s) ==
    IF ScanTokenStarts(s) = {} THEN 0
    ELSE LET first == SetMin(ScanTokenStarts(s)) + 5
             last == SetMax({j \in first..Len(s) : \A k \in first..j : s[k] \in Digits})
         IN  PlaceValueSum(s, first, last)

(***************************************************************************)
(* C10.                                                                    *)
(***************************************************************************)
\* C10: on every string, extract_scan_from_ref and extract_scan_number return
\* the same integer: the value of the digit run after the leftmost "scan="
\* that a digit follows, and 0 when the string has no such token.
C10_ScanExtractionUniform ==
    /\ scan_ref_out.called => scan_ref_out.value = ExpectedScan(scan_input)
    /\ scan_native_out.called => scan_native_out.value = ExpectedScan(scan_input)
    /\ (scan_ref_out.called /\ scan_native_out.called)
          => scan_ref_out.value = scan_native_out.value

\* Both extractors have run on "scan=12 end".
C10_Witness ==
    /\ scan_ref_out.called /\ scan_native_out.called
    /\ scan_input = <<"s", "c", "a", "n", "=", "1", "2", " ", "e", "n", "d">>
    /\ scan_ref_out.value = 12

\* Both extractors have run on a string with a digit-bearing prefix before the
\* token, and on one whose first "scan=" is followed by no digit.
C10_WitnessPrefix ==
    /\ scan_ref_out.called /\ scan_native_out.called
    /\ scan_input \in { <<"0", " ", "s", "c", "a", "n", "=", "1", "2">>,
                        <<"s", "c", "a", "n", "=", " ", "s", "c", "a", "n", "=", "7">> }

(***************************************************************************)
(* C4.                                                                     *)
(***************************************************************************)
\* The raw-data documents of a directory.
MzMLNames(dir) == {name \in DOMAIN dir : EndsWith(name, MzMLExtension)}

Aligned(dir) ==
    \A name \in MzMLNames(dir) : \A s \in 1..Len(dir[name]) :
        Len(dir[name][s].mz_array) = Len(dir[name][s].int_array)

\* One slot <<name, s, p>> per peak p of each level-2 spectrum s of each file.
PeakSlots(dir) ==
    UNION { UNION { IF dir[name][s].ms_level = 2
                    THEN {<<name, s, p>> : p \in 1..Len(dir[name][s].mz_array)}
                    ELSE {}
                    : s \in 1..Len(dir[name]) }
            : name \in MzMLNames(dir) }

\* Emission order: by filename, then spectrum, then peak.
SlotBefore(a, b) ==
    \/ StrLess(a[1], b[1])
    \/ a[1] = b[1] /\ a[2] < b[2]
    \/ a[1] = b[1] /\ a[2] = b[2] /\ a[3] < b[3]

SlotRank(dir, slot) == Cardinality({t \in PeakSlots(dir) : SlotBefore(t, slot)})

\* C4: on a directory whose peak arrays are index-aligned, build_spectra_cache
\* emits one record per peak of the level-2 spectra and none for the other
\* levels, in the order files (by filename), spectra, peaks, and peak_id
\* counts 0..m-1 along that order across the file boundaries.
C4_PeakRecords ==
    (cache_out.outcome = "returned" /\ Aligned(mzml_dir)) =>
        /\ Len(cache_out.spectra_df) = Cardinality(PeakSlots(mzml_dir))
        /\ \A k \in 1..Len(cache_out.spectra_df) : cache_out.spectra_df[k].peak_id = k - 1
        /\ \A slot \in PeakSlots(mzml_dir) :
              LET r == cache_out.spectra_df[SlotRank(mzml_dir, slot) + 1]
                  spec == mzml_dir[slot[1]][slot[2]]
              IN  /\ r.mass = spec.mz_array[slot[3]]
                  /\ r.intensity = spec.int_array[slot[3]]
                  /\ r.scan_id = ExpectedScan(spec.native_id)
                  /\ r.file_index = filename_to_index[slot[1]]

\* An aligned directory of two files was scanned: the first holds a level-1
\* spectrum with peaks and a level-2 spectrum, and the records of the second
\* file continue the count of the first.
C4_Witness ==
    /\ cache_out.outcome = "returned"
    /\ Aligned(mzml_dir)
    /\ DOMAIN mzml_dir = {NameA, NameB}
    /\ \E s \in 1..Len(mzml_dir[NameA]) :
          mzml_dir[NameA][s].ms_level = 1 /\ mzml_dir[NameA][s].mz_array # <<>>
    /\ \E k \in 2..Len(cache_out.spectra_df) :
          /\ cache_out.spectra_df[1].file_index = filename_to_index[NameA]
          /\ cache_out.spectra_df[k].file_index = filename_to_index[NameB]
          /\ cache_out.spectra_df[k].peak_id = k - 1

(***************************************************************************)
(* C2, C3, C6, C7, C8: parse_idxml.                                        *)
(***************************************************************************)
RecordKey(r) == <<r.file_index, r.scan_id>>

\* The pair an entry's meta values stand for: id_merge_index and the scan
\* number of spectrum_reference, each 0 when it is missing.
EntryKey(pep) ==
    << IF pep.has_id_merge_index THEN pep.id_merge_index ELSE 0,
       IF pep.has_spectrum_reference THEN ExpectedScan(pep.spectrum_reference) ELSE 0 >>

\* The hits of the records of one group, in table order.
GroupHits(df, key) ==
    LET InGroup(r) == RecordKey(r) = key
        group == SelectSeq(df, InGroup)
    IN  [k \in 1..Len(group) |-> group[k].hit]

\* The hits of the entries that stand for key, in document order.
EntriesHits(peps, key) ==
    Concat([i \in 1..Len(peps) |-> IF EntryKey(peps[i]) = key THEN peps[i].hits ELSE <<>>])

GroupKeys(df) == {RecordKey(df[k]) : k \in 1..Len(df)}

\* C2 as amended: each group of the emitted records, grouped by
\* (file_index, scan_id), holds exactly the hits of all the entries whose
\* id_merge_index (0 when absent) and scan number (0 when there is none) are
\* the group's key: one entry's hits when no other entry has the same pair,
\* the hits of several entries when they repeat a scan number of a file or
\* were both defaulted to 0.
C2_GroupsAreWholeEntries ==
    \A key \in GroupKeys(parse_out.id_df) :
        GroupHits(parse_out.id_df, key) = EntriesHits(idxml.peps, key)

\* Two entries with hits fell in one group.
C2_Witness ==
    /\ parse_out.outcome = "returned"
    /\ \E k, l \in 1..Len(parse_out.id_df) :
          /\ RecordKey(parse_out.id_df[k]) = RecordKey(parse_out.id_df[l])
          /\ parse_out.id_df[k].hit[1] # parse_out.id_df[l].hit[1]
          /\ parse_out.id_df[k].scan_id = 5

\* C2 as stated: each group holds exactly the hits of one single entry.
C2_GroupsAreSingleEntries ==
    \A key \in GroupKeys(parse_out.id_df) :
        \E i \in 1..Len(idxml.peps) :
            GroupHits(parse_out.id_df, key) = idxml.peps[i].hits

\* All hits of a document, in document order.
AllHits(peps) == Concat([i \in 1..Len(peps) |-> peps[i].hits])

\* C3 as stated: once parse_idxml was called on a document, it has emitted
\* one record per hit, in document order of the entries and hit order within
\* an entry, and the k-th record (from 0) has id_idx k.
C3_OneRecordPerHit ==
    parse_out.outcome # "not called" =>
        /\ Len(parse_out.id_df) = Len(AllHits(idxml.peps))
        /\ \A k \in 1..Len(parse_out.id_df) :
              /\ parse_out.id_df[k].id_idx = k - 1
              /\ parse_out.id_df[k].hit = AllHits(idxml.peps)[k]

\* The extent of C3's failure: whenever parse_idxml returns, the records are
\* one per hit, in order, with id_idx 0..n-1.
C3_HoldsWhenReturned ==
    parse_out.outcome = "returned" =>
        /\ Len(parse_out.id_df) = Len(AllHits(idxml.peps))
        /\ \A k \in 1..Len(parse_out.id_df) :
              /\ parse_out.id_df[k].id_idx = k - 1
              /\ parse_out.id_df[k].hit = AllHits(idxml.peps)[k]

\* The extent of C8's failure: parse_idxml raises exactly on the documents
\* with an entry whose id_merge_index is below minus the list length.
C8_RaisesOnlyBelowMinusLength ==
    parse_out.outcome # "not called" =>
        (parse_out.outcome = "IndexError" <=>
            \E i \in 1..Len(idxml.peps) :
                /\ idxml.peps[i].has_id_merge_index
                /\ idxml.peps[i].id_merge_index < -1)

\* C6 as stated: the source filename list parse_idxml returns is the list the
\* document embeds when that list is not empty, and the one derived name
\* otherwise.
C6_EmbeddedListFirst ==
    parse_out.outcome = "returned" =>
        parse_out.spectra_data =
            IF idxml.embedded_spectra_data # <<>> THEN idxml.embedded_spectra_data
            ELSE <<extract_filename_from_idxml(idxml.path)>>

\* C7 as stated: the file_index on an entry's records is its id_merge_index
\* when that exists and is an index into the source filename list, and 0 in
\* every other case.
C7_FileIndexInRangeOrZero ==
    \A k \in 1..Len(parse_out.id_df) :
        LET r == parse_out.id_df[k]
            pep == idxml.peps[r.hit[1]]
        IN  r.file_index =
                IF /\ pep.has_id_merge_index
                   /\ 0 <= pep.id_merge_index
                   /\ pep.id_merge_index < Len(parse_out.spectra_data)
                THEN pep.id_merge_index ELSE 0

\* C8 as stated: whatever the entries' spectrum references and id_merge_index
\* values are, parse_idxml does not raise and emits one record per hit.
C8_ResolutionNeverRaises ==
    parse_out.outcome # "not called" =>
        /\ parse_out.outcome = "returned"
        /\ Len(parse_out.id_df) = Len(AllHits(idxml.peps))

(***************************************************************************)
(* C9: misaligned peak arrays.                                             *)
(***************************************************************************)
Misaligned(dir) ==
    \E name \in MzMLNames(dir) : \E s \in 1..Len(dir[name]) :
        /\ dir[name][s].ms_level = 2
        /\ Len(dir[name][s].mz_array) # Len(dir[name][s].int_array)

\* C9 as stated: a scan of a directory with a level-2 spectrum whose two
\* arrays differ in length ends in CorruptPeakData.
C9_MisalignedIsCorruptPeakData ==
    (cache_out.outcome # "not called" /\ Misaligned(mzml_dir)) =>
        cache_out.outcome = "CorruptPeakData"

(***************************************************************************)
(* C1, C5: the file index across the two calls of one engine run.          *)
(***************************************************************************)
\* C1 as stated: after both calls, in either order, a record of parse_idxml
\* whose filename is a raw-data file of the scanned directory carries the
\* index the dict holds for that filename.
C1_OneIndexPerFilename ==
    (parse_out.outcome = "returned" /\ cache_out.outcome = "returned") =>
        \A k \in 1..Len(parse_out.id_df) :
            LET r == parse_out.id_df[k]
            IN  (r.filename = extract_filename_from_idxml(idxml.path)
                   /\ r.filename \in MzMLNames(mzml_dir))
                => r.file_index = filename_to_index[r.filename]

\* C5 as stated: over a call of build_spectra_cache, a filename of the dict
\* keeps its index and a new filename gets an index no other filename has.
C5_Step ==
    /\ \A f \in DOMAIN filename_to_index :
          f \in DOMAIN filename_to_index' /\ filename_to_index'[f] = filename_to_index[f]
    /\ \A f \in DOMAIN filename_to_index' \ DOMAIN filename_to_index :
          \A g \in DOMAIN filename_to_index' \ {f} :
              filename_to_index'[g] # filename_to_index'[f]

C5_IndicesKeptAndUnused == [][C5_Step]_vars

====
